---- MODULE Spec2Model ----
(***************************************************************************)
(* Lofield FM configuration validator (scripts/validate_config.py).        *)
(*                                                                         *)
(* One run of main(): the five checkers run in sequence over the loaded    *)
(* configuration documents, their findings are accumulated in all_errors   *)
(* and all_warnings, and the summary decides the exit status.              *)
(*                                                                         *)
(* Documents are the values load_json returns: None for a file that is     *)
(* missing or is not JSON, otherwise the parsed document.  Fractions are   *)
(* fixed-point numbers in ten-thousandths (6000 is 0.6).  HH:MM strings    *)
(* are tuples of one-character strings, parsed as split(':') and int()     *)
(* parse them.  A finding is a record [kind, a, b, n] holding the fields   *)
(* the message text is formatted from.                                     *)
(***************************************************************************)
EXTENDS Integers, Sequences, FiniteSets, TLC

VARIABLES
    station,       \* load_json('config/station.json')
    presenters,    \* load_json('config/presenters.json')
    tags,          \* load_json('config/tags.json')
    shows,         \* load_json of each config/shows/*.json, in sorted file order
    pc,            \* position of main()
    all_errors,    \* main's all_errors
    all_warnings,  \* main's all_warnings
    schedule,      \* validate_schedule_coverage's sorted schedule list
    exit_status    \* how the process ended

vars == <<station, presenters, tags, shows, pc, all_errors, all_warnings,
          schedule, exit_status>>

----------------------------------------------------------------------------
(* Bounds of the model *)

MaxShows == 3          \* show files in the schedule configurations
MaxXrefShows == 3      \* show files in the cross-reference configurations
MaxRatioShows == 2     \* show files in the ratio configurations
MaxBudgetShows == 2    \* show files in the budget configurations
MaxBadShows == 2       \* show files in the malformed-input configurations

----------------------------------------------------------------------------
(* Values *)

None == [none |-> TRUE]         \* load_json's result for an unreadable file

Scale == 10 * 1000              \* fixed-point denominator of a fraction
One == Scale                    \* 1.0
DayMinutes == 24 * 60           \* 24 * 60

Finding(kind, a, b, n) == [kind |-> kind, a |-> a, b |-> b, n |-> n]

Abs(x) == IF x < 0 THEN -x ELSE x

\* `not doc` for a value load_json returned (the documents of the model are
\* None or non-empty objects).
Falsy(doc) == doc = None

\* doc[key] raises KeyError unless the document holds the key.
Has(doc, key) == key \in DOMAIN doc

----------------------------------------------------------------------------
(* HH:MM strings *)

DigitChars == <<"0", "1", "2", "3", "4", "5", "6", "7", "8", "9">>

IsDigit(c) == \E d \in 1..Len(DigitChars) : DigitChars[d] = c

DigitValue(c) == (CHOOSE d \in 1..Len(DigitChars) : DigitChars[d] = c) - 1

\* int(s) raises ValueError unless s is a non-empty digit string.
IntRaises(s) == Len(s) = 0 \/ \E k \in 1..Len(s) : ~IsDigit(s[k])

RECURSIVE IntOf(_)
IntOf(s) ==
    IF Len(s) = 0 THEN 0
    ELSE 10 * IntOf(SubSeq(s, 1, Len(s) - 1)) + DigitValue(s[Len(s)])

\* s.split(sep)
RECURSIVE Split(_, _)
Split(s, sep) ==
    IF \A k \in 1..Len(s) : s[k] # sep THEN <<s>>
    ELSE LET k == CHOOSE j \in 1..Len(s) :
                      s[j] = sep /\ \A h \in 1..(j - 1) : s[h] # sep
         IN <<SubSeq(s, 1, k - 1)>> \o Split(SubSeq(s, k + 1, Len(s)), sep)

\* hour, minute = map(int, s.split(':')) raises ValueError for a wrong number
\* of parts or a part that is no integer.
TimeRaises(s) ==
    \/ Len(Split(s, ":")) # 2
    \/ \E k \in 1..2 : IntRaises(Split(s, ":")[k])

Midnight == <<"0", "0", ":", "0", "0">>

\* start_hour * 60 + start_min
StartMinute(s) == IntOf(Split(s, ":")[1]) * 60 + IntOf(Split(s, ":")[2])

EndMinuteNoSentinel(s) == StartMinute(s)

\* end_hour * 60 + end_min if end != "00:00" else 24 * 60
EndMinute(s) == IF s # Midnight THEN StartMinute(s) ELSE DayMinutes

----------------------------------------------------------------------------
(* Sequence helpers *)

RECURSIVE Flatten(_)
Flatten(ss) == IF Len(ss) = 0 THEN <<>> ELSE Head(ss) \o Flatten(Tail(ss))

\* the loaded documents among the show files, in file order
Loaded(docs) == SelectSeq(docs, LAMBDA d : ~Falsy(d))

Perms(S) ==
    {f \in [1..Cardinality(S) -> S] :
        \A i, j \in 1..Cardinality(S) : f[i] = f[j] => i = j}

----------------------------------------------------------------------------
(* validate_json_syntax *)

BaseFiles ==
    <<[path |-> "config/station.json", doc |-> station],
      [path |-> "config/presenters.json", doc |-> presenters],
      [path |-> "config/tags.json", doc |-> tags]>>

BaseFileErrors ==
    Flatten([k \in 1..Len(BaseFiles) |->
        IF BaseFiles[k].doc = None
        THEN <<Finding("InvalidJSON", BaseFiles[k].path, "", 0)>>
        ELSE <<>>])

\* The show files follow in glob order, which is not sorted: `order` is the
\* order in which the unreadable ones are met.
JsonSyntaxErrors(order) ==
    BaseFileErrors \o
    [k \in 1..Len(order) |-> Finding("InvalidJSON", "config/shows", "", order[k])]

UnreadableShows == {i \in 1..Len(shows) : shows[i] = None}

----------------------------------------------------------------------------
(* validate_cross_references *)

BaseConfigError == Finding("BaseConfig", "", "", 0)

CrossReferencesBlocked == Falsy(presenters) \/ Falsy(tags)

PresenterErrors(show, presenter_ids) ==
    Flatten([k \in 1..Len(show.primary_duo) |->
        IF show.primary_duo[k] \notin presenter_ids
        THEN <<Finding("UnknownPresenter", show.id, show.primary_duo[k], 0)>>
        ELSE <<>>])

TagErrors(show, allowed_tags) ==
    Flatten([k \in 1..Len(show.primary_tags) |->
        IF show.primary_tags[k] \notin allowed_tags
        THEN <<Finding("UnknownTag", show.id, show.primary_tags[k], 0)>>
        ELSE <<>>])

ShowReferenceErrorsTagsFirst(show, presenter_ids, allowed_tags) ==
    TagErrors(show, allowed_tags) \o PresenterErrors(show, presenter_ids)

\* the body of the loop for one loaded show
ShowReferenceErrors(show, presenter_ids, allowed_tags) ==
    PresenterErrors(show, presenter_ids) \o TagErrors(show, allowed_tags)

CrossReferenceRaises ==
    /\ ~CrossReferencesBlocked
    /\ \E i \in 1..Len(shows) :
        /\ ~Falsy(shows[i])
        /\ \/ ~Has(shows[i], "id")
           \/ ~Has(shows[i], "primary_duo")
           \/ ~Has(shows[i], "primary_tags")

CrossReferenceErrors ==
    IF CrossReferencesBlocked THEN <<BaseConfigError>>
    ELSE LET presenter_ids ==
                 {presenters.presenters[k] : k \in 1..Len(presenters.presenters)}
             allowed_tags ==
                 {tags.allowed_topic_tags[k] :
                      k \in 1..Len(tags.allowed_topic_tags)}
         IN Flatten([i \in 1..Len(shows) |->
                IF Falsy(shows[i])
                THEN <<Finding("FailedToLoad", "config/shows", "", i)>>
                ELSE ShowReferenceErrors(shows[i], presenter_ids, allowed_tags)])

----------------------------------------------------------------------------
(* validate_music_ratios *)

StationError == Finding("StationConfig", "", "", 0)

MusicExceeds(music_fraction, max_music) == music_fraction > max_music

TalkBelow(talk_fraction, min_talk) == talk_fraction < min_talk

SumMismatchInclusive(music_fraction, talk_fraction) ==
    Abs((music_fraction + talk_fraction) - One) >= 10

\* abs(total - 1.0) > 0.001
SumMismatch(music_fraction, talk_fraction) ==
    Abs((music_fraction + talk_fraction) - One) > 10

ShowRatioErrors(show, max_music, min_talk) ==
    (IF MusicExceeds(show.music_fraction, max_music)
     THEN <<Finding("MusicExceeds", show.id, "", show.music_fraction)>>
     ELSE <<>>) \o
    (IF TalkBelow(show.talk_fraction, min_talk)
     THEN <<Finding("TalkBelow", show.id, "", show.talk_fraction)>>
     ELSE <<>>) \o
    (IF SumMismatch(show.music_fraction, show.talk_fraction)
     THEN <<Finding("RatioSum", show.id, "",
                    show.music_fraction + show.talk_fraction)>>
     ELSE <<>>)

MusicRatioRaises ==
    /\ ~Falsy(station)
    /\ \E i \in 1..Len(shows) :
        /\ ~Falsy(shows[i])
        /\ \/ ~Has(shows[i], "id")
           \/ ~Has(shows[i], "music_fraction")
           \/ ~Has(shows[i], "talk_fraction")

MusicRatioErrors ==
    IF Falsy(station) THEN <<StationError>>
    ELSE Flatten([i \in 1..Len(shows) |->
            IF Falsy(shows[i]) THEN <<>>
            ELSE ShowRatioErrors(shows[i], station.max_music_fraction,
                                 station.min_talk_fraction)])

----------------------------------------------------------------------------
(* validate_schedule_coverage *)

ScheduleRaises ==
    \E i \in 1..Len(shows) :
        /\ ~Falsy(shows[i])
        /\ \/ ~Has(shows[i], "id")
           \/ ~Has(shows[i], "start_time_utc")
           \/ ~Has(shows[i], "end_time_utc")
           \/ TimeRaises(shows[i].start_time_utc)
           \/ TimeRaises(shows[i].end_time_utc)

\* the schedule entry appended for one show
Slot(show) ==
    [id |-> show.id,
     start |-> StartMinute(show.start_time_utc),
     end |-> EndMinute(show.end_time_utc)]

ParsedSchedule == [i \in 1..Len(Loaded(shows)) |-> Slot(Loaded(shows)[i])]

\* schedule.sort(key=lambda x: x['start']): list.sort is stable
RECURSIVE InsertByStart(_, _)
InsertByStart(x, s) ==
    IF Len(s) = 0 THEN <<x>>
    ELSE IF x.start < Head(s).start THEN <<x>> \o s
    ELSE <<Head(s)>> \o InsertByStart(x, Tail(s))

RECURSIVE SortByStart(_)
SortByStart(s) ==
    IF Len(s) = 0 THEN <<>>
    ELSE InsertByStart(s[Len(s)], SortByStart(SubSeq(s, 1, Len(s) - 1)))

NextShowNoWrap(sched, i) == sched[IF i < Len(sched) THEN i + 1 ELSE i]

\* schedule[(i + 1) % len(schedule)], for the 1-based position i
NextShow(sched, i) == sched[(i % Len(sched)) + 1]

ExpectedEndCircular(sched, i) == NextShow(sched, i).start

\* next_show['start'] if i < len(schedule) - 1 else 24 * 60
ExpectedEnd(sched, i) ==
    IF i < Len(sched) THEN NextShow(sched, i).start ELSE DayMinutes

AdjacencyErrorGapsOnly(sched, i) ==
    IF sched[i].end < ExpectedEnd(sched, i)
    THEN <<Finding("Gap", sched[i].id, NextShow(sched, i).id,
                   ExpectedEnd(sched, i) - sched[i].end)>>
    ELSE <<>>

\* one iteration of the gap and overlap loop
AdjacencyError(sched, i) ==
    LET current == sched[i]
        next_show == NextShow(sched, i)
        expected_end == ExpectedEnd(sched, i)
    IN IF current.end < expected_end
       THEN <<Finding("Gap", current.id, next_show.id,
                      expected_end - current.end)>>
       ELSE IF current.end > expected_end
       THEN <<Finding("Overlap", current.id, next_show.id,
                      current.end - expected_end)>>
       ELSE <<>>

AdjacencyErrors(sched) ==
    Flatten([i \in 1..Len(sched) |-> AdjacencyError(sched, i)])

\* sum(s['end'] - s['start'] for s in schedule)
RECURSIVE TotalMinutes(_)
TotalMinutes(sched) ==
    IF Len(sched) = 0 THEN 0
    ELSE (Head(sched).end - Head(sched).start) + TotalMinutes(Tail(sched))

CoverageErrorNever(sched) == <<>>

CoverageError(sched) ==
    IF TotalMinutes(sched) # DayMinutes
    THEN <<Finding("TotalCoverage", "", "", TotalMinutes(sched))>>
    ELSE <<>>

ScheduleErrors(sched) == AdjacencyErrors(sched) \o CoverageError(sched)

----------------------------------------------------------------------------
(* validate_ai_budgets *)

AiBudgetRaises ==
    \E i \in 1..Len(shows) :
        /\ ~Falsy(shows[i])
        /\ \E key \in {"id", "duration_hours", "talk_fraction",
                       "music_fraction", "max_tts_seconds_per_show",
                       "max_music_minutes_per_show"} : ~Has(shows[i], key)

\* abs(tts_budget - expected_tts) > 60, with expected_tts =
\* duration_hours * 3600 * talk_fraction
TtsDiffers(show) ==
    Abs(show.max_tts_seconds_per_show * Scale
        - show.duration_hours * 3600 * show.talk_fraction) > 60 * Scale

\* abs(music_budget - expected_music_mins) > 5, with expected_music_mins =
\* (duration_hours * 3600 * music_fraction) / 60
MusicDiffers(show) ==
    Abs(show.max_music_minutes_per_show * Scale * 60
        - show.duration_hours * 3600 * show.music_fraction) > 5 * Scale * 60

ShowBudgetWarnings(show) ==
    (IF TtsDiffers(show)
     THEN <<Finding("TtsBudget", show.id, "", show.max_tts_seconds_per_show)>>
     ELSE <<>>) \o
    (IF MusicDiffers(show)
     THEN <<Finding("MusicBudget", show.id, "",
                    show.max_music_minutes_per_show)>>
     ELSE <<>>)

AiBudgetWarnings ==
    Flatten([i \in 1..Len(shows) |->
        IF Falsy(shows[i]) THEN <<>> ELSE ShowBudgetWarnings(shows[i])])

----------------------------------------------------------------------------
(* main *)

AfterCheckerShortCircuit(p) ==
    CASE p = "json" -> "xref"
      [] p = "xref" -> IF CrossReferencesBlocked THEN "summary" ELSE "ratios"
      [] p = "ratios" -> "schedule"
      [] p = "schedule" -> "budgets"
      [] p = "budgets" -> "summary"

\* the order in which main calls the checkers
AfterChecker(p) ==
    CASE p = "json" -> "xref"
      [] p = "xref" -> "ratios"
      [] p = "ratios" -> "schedule"
      [] p = "schedule" -> "budgets"
      [] p = "budgets" -> "summary"

ExitStatusWarningsFail(errors, warnings) ==
    IF Len(errors) > 0 \/ Len(warnings) > 0 THEN "failure" ELSE "passed"

\* the summary: sys.exit(1) when there are errors, else a normal return
ExitStatus(errors, warnings) ==
    IF Len(errors) > 0 THEN "failure"
    ELSE IF Len(warnings) > 0 THEN "passed_with_warnings"
    ELSE "passed"

\* an exception leaves the checker and main: nothing collected is reported
Raise ==
    /\ pc' = "crashed"
    /\ exit_status' = "exception"
    /\ UNCHANGED <<all_errors, all_warnings, schedule>>

ValidateJsonSyntax ==
    /\ pc = "json"
    /\ \E order \in Perms(UnreadableShows) :
           all_errors' = all_errors \o JsonSyntaxErrors(order)
    /\ pc' = AfterChecker(pc)
    /\ UNCHANGED <<station, presenters, tags, shows, all_warnings, schedule,
                   exit_status>>

ValidateCrossReferences ==
    /\ pc = "xref"
    /\ IF CrossReferenceRaises THEN Raise
       ELSE /\ all_errors' = all_errors \o CrossReferenceErrors
            /\ pc' = AfterChecker(pc)
            /\ UNCHANGED <<all_warnings, schedule, exit_status>>
    /\ UNCHANGED <<station, presenters, tags, shows>>

ValidateMusicRatios ==
    /\ pc = "ratios"
    /\ IF MusicRatioRaises THEN Raise
       ELSE /\ all_errors' = all_errors \o MusicRatioErrors
            /\ pc' = AfterChecker(pc)
            /\ UNCHANGED <<all_warnings, schedule, exit_status>>
    /\ UNCHANGED <<station, presenters, tags, shows>>

ValidateScheduleCoverage ==
    /\ pc = "schedule"
    /\ IF ScheduleRaises THEN Raise
       ELSE /\ schedule' = SortByStart(ParsedSchedule)
            /\ all_errors' = all_errors \o ScheduleErrors(schedule')
            /\ pc' = AfterChecker(pc)
            /\ UNCHANGED <<all_warnings, exit_status>>
    /\ UNCHANGED <<station, presenters, tags, shows>>

ValidateAiBudgets ==
    /\ pc = "budgets"
    /\ IF AiBudgetRaises THEN Raise
       ELSE /\ all_warnings' = all_warnings \o AiBudgetWarnings
            /\ pc' = AfterChecker(pc)
            /\ UNCHANGED <<all_errors, schedule, exit_status>>
    /\ UNCHANGED <<station, presenters, tags, shows>>

Summary ==
    /\ pc = "summary"
    /\ exit_status' = ExitStatus(all_errors, all_warnings)
    /\ pc' = "done"
    /\ UNCHANGED <<station, presenters, tags, shows, all_errors, all_warnings,
                   schedule>>

Next ==
    \/ ValidateJsonSyntax
    \/ ValidateCrossReferences
    \/ ValidateMusicRatios
    \/ ValidateScheduleCoverage
    \/ ValidateAiBudgets
    \/ Summary

----------------------------------------------------------------------------
(* Configurations *)

Policy(max_music, min_talk) ==
    [max_music_fraction |-> max_music, min_talk_fraction |-> min_talk]

Roster == [presenters |-> <<"p1", "p2">>]

Vocabulary == [allowed_topic_tags |-> <<"t1", "t2">>]

ShowIds == <<"show_a", "show_b", "show_c", "show_d", "show_e", "show_f">>

T0800 == <<"0", "8", ":", "0", "0">>
T1000 == <<"1", "0", ":", "0", "0">>
T1030 == <<"1", "0", ":", "3", "0">>
T1200 == <<"1", "2", ":", "0", "0">>

\* a show that passes every check but the schedule's: the shows at positions
\* 1..3 cover the day, the later ones repeat the last slot
BaseShow(i) ==
    [id |-> ShowIds[i],
     primary_duo |-> <<"p1", "p2">>,
     primary_tags |-> <<"t1">>,
     music_fraction |-> 6000,
     talk_fraction |-> 4000,
     start_time_utc |-> IF i = 1 THEN Midnight
                        ELSE IF i = 2 THEN T0800 ELSE T1200,
     end_time_utc |-> IF i = 1 THEN T0800
                      ELSE IF i = 2 THEN T1200 ELSE Midnight,
     duration_hours |-> 3,
     max_tts_seconds_per_show |-> 4320,
     max_music_minutes_per_show |-> 108]

\* the process before main runs
Start ==
    /\ pc = "json"
    /\ all_errors = <<>>
    /\ all_warnings = <<>>
    /\ schedule = <<>>
    /\ exit_status = "running"

(* Schedule configurations: every show has a well-formed start and end. *)

StartStrings == {Midnight, T0800, T1030, T1200}
EndStrings == {T0800, T1000, T1200, Midnight}

ScheduleShows(n, tp) ==
    [i \in 1..n |-> [BaseShow(i) EXCEPT !.start_time_utc = tp[i][1],
                                        !.end_time_utc = tp[i][2]]]

InitSchedule ==
    /\ station = Policy(6000, 4000)
    /\ presenters = Roster
    /\ tags = Vocabulary
    /\ \E n \in 0..MaxShows :
           \E tp \in [1..n -> StartStrings \X EndStrings] :
               shows = ScheduleShows(n, tp)
    /\ Start

SpecSchedule == InitSchedule /\ [][Next]_vars

(* Cross-reference configurations: the roster and the vocabulary load or
   fail to load, a show file fails to load or names known and unknown
   presenters and tags. *)

DuoChoices ==
    {<<"p1", "p2">>, <<"p1", "dj_unknown">>, <<"dj_unknown", "dj_ghost">>}

TagChoices == {<<"t1">>, <<"t2", "bogus">>, <<"bogus", "t1", "retro">>}

XrefShows(n, c) ==
    [i \in 1..n |->
        IF c[i] = None THEN None
        ELSE [BaseShow(i) EXCEPT !.primary_duo = c[i][1],
                                 !.primary_tags = c[i][2]]]

InitXref ==
    /\ station = Policy(6000, 4000)
    /\ presenters \in {None, Roster}
    /\ tags \in {None, Vocabulary}
    /\ \E n \in 0..MaxXrefShows :
           \E c \in [1..n -> {None} \cup (DuoChoices \X TagChoices)] :
               shows = XrefShows(n, c)
    /\ Start

SpecXref == InitXref /\ [][Next]_vars

(* Ratio configurations: fractions on both sides of each bound. *)

MusicChoices == {5990, 6000, 6001, 7001}
TalkChoices == {2999, 3989, 3990, 4000, 4009, 4010, 4011}

RatioShows(n, c) ==
    [i \in 1..n |-> [BaseShow(i) EXCEPT !.music_fraction = c[i][1],
                                        !.talk_fraction = c[i][2]]]

InitRatios ==
    /\ station \in {None, Policy(6000, 4000), Policy(7000, 3000)}
    /\ presenters = Roster
    /\ tags = Vocabulary
    /\ \E n \in 0..MaxRatioShows :
           \E c \in [1..n -> MusicChoices \X TalkChoices] :
               shows = RatioShows(n, c)
    /\ Start

SpecRatios == InitRatios /\ [][Next]_vars

(* Budget configurations: for a 3-hour show at 0.6 / 0.4 the expected budgets
   are 4320 s and 108 min, for a 2-hour show 2880 s and 72 min.  The shows
   that load cover the day. *)

BudgetChoices ==
    ({3} \X {4259, 4260, 4380, 4381} \X {102, 103, 113, 114})
        \cup {<<2, 2880, 72>>, <<2, 4320, 108>>}

\* one or two shows that cover the day between them
CoveringShow(i, n) ==
    IF n = 1
    THEN [BaseShow(i) EXCEPT !.start_time_utc = Midnight,
                             !.end_time_utc = Midnight]
    ELSE IF n = 2 /\ i = 1 THEN [BaseShow(i) EXCEPT !.end_time_utc = T1200]
    ELSE IF n = 2 /\ i = 2 THEN [BaseShow(i) EXCEPT !.start_time_utc = T1200,
                                                    !.end_time_utc = Midnight]
    ELSE BaseShow(i)

BudgetShows(n, c) ==
    [i \in 1..n |->
        IF c[i] = None THEN None
        ELSE [CoveringShow(i, n) EXCEPT
                  !.duration_hours = c[i][1],
                  !.max_tts_seconds_per_show = c[i][2],
                  !.max_music_minutes_per_show = c[i][3]]]

InitBudgets ==
    /\ station \in {None, Policy(6000, 4000)}
    /\ presenters = Roster
    /\ tags = Vocabulary
    /\ \E n \in 0..MaxBudgetShows :
           \E c \in [1..n -> {None} \cup BudgetChoices] :
               shows = BudgetShows(n, c)
    /\ Start

SpecBudgets == InitBudgets /\ [][Next]_vars

(* Malformed-input configurations: a start or end time that is no HH:MM
   string, or a show document without the field. *)

T8am == <<"8", "a", "m">>
T080000 == <<"0", "8", ":", "0", "0", ":", "0", "0">>
Absent == <<"absent">>

Without(doc, key) == [k \in DOMAIN doc \ {key} |-> doc[k]]

WithTime(doc, key, value) ==
    IF value = Absent THEN Without(doc, key) ELSE [doc EXCEPT ![key] = value]

BadStartStrings == {Midnight, T1200, T8am, Absent}
BadEndStrings == {T1200, Midnight, T080000, Absent}

BadShows(n, tp) ==
    [i \in 1..n |->
        WithTime(WithTime(BaseShow(i), "start_time_utc", tp[i][1]),
                 "end_time_utc", tp[i][2])]

InitMalformed ==
    /\ station = Policy(6000, 4000)
    /\ presenters = Roster
    /\ tags = Vocabulary
    /\ \E n \in 0..MaxBadShows :
           \E tp \in [1..n -> BadStartStrings \X BadEndStrings] :
               shows = BadShows(n, tp)
    /\ Start

SpecMalformed == InitMalformed /\ [][Next]_vars

----------------------------------------------------------------------------
(* Properties of the schedule checker *)

OfKind(findings, kinds) == SelectSeq(findings, LAMBDA f : f.kind \in kinds)

AdjacencyKinds == {"Gap", "Overlap"}
ScheduleKinds == {"Gap", "Overlap", "TotalCoverage"}

\* validate_schedule_coverage has returned
ScheduleRan == pc \in {"budgets", "summary", "done"}

\* the minutes of the day inside the slot [start, end)
Covering(slots, m) ==
    {i \in 1..Len(slots) : slots[i].start <= m /\ m < slots[i].end}

\* every slot is a non-empty interval and every minute lies in exactly one
ExactPartition(slots) ==
    /\ \A i \in 1..Len(slots) : slots[i].start < slots[i].end
    /\ \A m \in 0..(DayMinutes - 1) : Cardinality(Covering(slots, m)) = 1

RECURSIVE SumOfLengths(_, _)
SumOfLengths(slots, n) ==
    IF n = 0 THEN 0
    ELSE SumOfLengths(slots, n - 1) + (slots[n].end - slots[n].start)

\* the minute of the day a well-formed HH:MM string names
ClockMinute(t) ==
    (DigitValue(t[1]) * 10 + DigitValue(t[2])) * 60
        + DigitValue(t[4]) * 10 + DigitValue(t[5])

\* the slots the shows declare: an end of 00:00 is the end of the day
DeclaredSlots ==
    [i \in 1..Len(shows) |->
        [id |-> shows[i].id,
         start |-> ClockMinute(shows[i].start_time_utc),
         end |-> IF shows[i].end_time_utc = Midnight THEN DayMinutes
                 ELSE ClockMinute(shows[i].end_time_utc)]]

\* C1: a set of shows whose slots partition [0,1440) exactly gets no gap, no
\* overlap and no total-coverage finding, and the slot lengths the checker
\* sums are 1440.
C1_PartitionHasNoFindings ==
    (ScheduleRan /\ ExactPartition(DeclaredSlots)) =>
        /\ OfKind(all_errors, ScheduleKinds) = <<>>
        /\ SumOfLengths(schedule, Len(schedule)) = DayMinutes

C1_Witness ==
    /\ ScheduleRan
    /\ ExactPartition(DeclaredSlots)
    /\ Len(shows) = 3
    /\ shows[3].end_time_utc = Midnight

\* the single show 00:00-00:00 passes with no finding
C1_WitnessWholeDay ==
    /\ ScheduleRan
    /\ Len(shows) = 1
    /\ shows[1].start_time_utc = Midnight
    /\ shows[1].end_time_utc = Midnight
    /\ all_errors = <<>>

\* the two shows 08:00-10:00 and 10:30-12:00, in either file order
GapScenario ==
    /\ Len(shows) = 2
    /\ \E i, j \in 1..2 :
        /\ i # j
        /\ shows[i].start_time_utc = T0800 /\ shows[i].end_time_utc = T1000
        /\ shows[j].start_time_utc = T1030 /\ shows[j].end_time_utc = T1200

EarlyShow == CHOOSE i \in 1..2 : shows[i].start_time_utc = T0800
LateShow == CHOOSE i \in 1..2 : shows[i].start_time_utc = T1030

\* C2 as stated: the run over the two shows 08:00-10:00 and 10:30-12:00 ends
\* with exactly one error, the 30-minute gap between the first show and the
\* second.
C2_ExactlyOneGapError ==
    (pc = "done" /\ GapScenario) =>
        all_errors = <<Finding("Gap", shows[EarlyShow].id,
                               shows[LateShow].id, 30)>>

\* C2 amended: the run ends with exactly three errors: the 30-minute gap
\* between the first show and the second, a 720-minute gap between the second
\* show and the first (the last slot is measured against 1440), and the
\* total-coverage error for the 210 minutes covered.
C2_GapScenarioThreeErrors ==
    (pc = "done" /\ GapScenario) =>
        all_errors = <<Finding("Gap", shows[EarlyShow].id,
                               shows[LateShow].id, 30),
                       Finding("Gap", shows[LateShow].id,
                               shows[EarlyShow].id, 720),
                       Finding("TotalCoverage", "", "", 210)>>

C2_Witness == pc = "done" /\ GapScenario /\ Len(all_errors) = 3

EarliestStart ==
    CHOOSE m \in {ParsedSchedule[i].start : i \in 1..Len(ParsedSchedule)} :
        \A i \in 1..Len(ParsedSchedule) : m <= ParsedSchedule[i].start

NoAdjacencyFinding ==
    ScheduleRan /\ Len(schedule) > 0 /\ OfKind(all_errors, AdjacencyKinds) = <<>>

\* C8 as stated: a non-empty schedule with no gap and no overlap finding
\* sums to 1440 minutes and gets no total-coverage error.
C8_NoAdjacencyFindingMeansFullDay ==
    NoAdjacencyFinding =>
        /\ SumOfLengths(ParsedSchedule, Len(ParsedSchedule)) = DayMinutes
        /\ OfKind(all_errors, {"TotalCoverage"}) = <<>>

\* C8 amended: a non-empty schedule with no gap and no overlap finding sums
\* to 1440 minus the earliest start, so the total-coverage error is emitted
\* exactly when the earliest show does not start at 00:00.
C8_NoAdjacencyFindingSumsFromFirstStart ==
    NoAdjacencyFinding =>
        /\ SumOfLengths(ParsedSchedule, Len(ParsedSchedule))
               = DayMinutes - EarliestStart
        /\ OfKind(all_errors, {"TotalCoverage"}) =
               IF EarliestStart = 0 THEN <<>>
               ELSE <<Finding("TotalCoverage", "", "",
                              DayMinutes - EarliestStart)>>

C8_Witness ==
    /\ NoAdjacencyFinding
    /\ Len(schedule) = 2
    /\ EarliestStart = 8 * 60
    /\ OfKind(all_errors, {"TotalCoverage"}) # <<>>

\* C9: the schedule is sorted ascending by start; slot i is compared with
\* the next slot's start, or with 1440 when it is last; it yields a Gap when
\* its end is below, an Overlap when above, nothing when equal, never more
\* than one finding; the second show named is the next slot, or the first
\* slot when i is last.
C9_AdjacencyPass ==
    ScheduleRan =>
        /\ \A i, j \in 1..Len(schedule) :
               i < j => schedule[i].start <= schedule[j].start
        /\ Len(OfKind(all_errors, AdjacencyKinds)) <= Len(schedule)
        /\ \A i \in 1..Len(schedule) :
            LET last == i = Len(schedule)
                reference == IF last THEN DayMinutes ELSE schedule[i + 1].start
                neighbor == IF last THEN schedule[1] ELSE schedule[i + 1]
                mine == SelectSeq(OfKind(all_errors, AdjacencyKinds),
                                  LAMBDA f : f.a = schedule[i].id)
            IN /\ Len(mine) <= 1
               /\ schedule[i].end < reference =>
                      mine = <<Finding("Gap", schedule[i].id, neighbor.id,
                                       reference - schedule[i].end)>>
               /\ schedule[i].end > reference =>
                      mine = <<Finding("Overlap", schedule[i].id, neighbor.id,
                                       schedule[i].end - reference)>>
               /\ schedule[i].end = reference => mine = <<>>

C9_Witness ==
    /\ ScheduleRan
    /\ Len(schedule) = 3
    /\ \E f \in {all_errors[k] : k \in 1..Len(all_errors)} :
           f.kind = "Gap" /\ f.a = schedule[3].id /\ f.b = schedule[1].id
    /\ \E f \in {all_errors[k] : k \in 1..Len(all_errors)} :
           f.kind = "Overlap" /\ f.a = schedule[1].id /\ f.b = schedule[2].id
    /\ \A f \in {all_errors[k] : k \in 1..Len(all_errors)} :
           f.a # schedule[2].id

Max(a, b) == IF a > b THEN a ELSE b
Min(a, b) == IF a < b THEN a ELSE b

\* the minutes two slots share
SharedMinutes(x, y) == Max(x.start, y.start)..(Min(x.end, y.end) - 1)

\* C10: when the schedule checker returns no error, every minute of the day
\* lies in exactly one slot; so two slots that share a minute, adjacent in
\* sort order or not, cause at least one error.
C10_NoErrorMeansExactCover ==
    ScheduleRan =>
        /\ OfKind(all_errors, ScheduleKinds) = <<>> =>
               \A m \in 0..(DayMinutes - 1) :
                   Cardinality(Covering(ParsedSchedule, m)) = 1
        /\ (\E i, j \in 1..Len(schedule) :
                i # j /\ SharedMinutes(schedule[i], schedule[j]) # {}) =>
               OfKind(all_errors, ScheduleKinds) # <<>>

C10_Witness ==
    /\ ScheduleRan
    /\ Len(schedule) = 3
    /\ SharedMinutes(schedule[1], schedule[3]) # {}
    /\ SharedMinutes(schedule[2], schedule[3]) = {}
    /\ OfKind(all_errors, ScheduleKinds) # <<>>

\* an error-free schedule of two slots
C10_WitnessExactCover ==
    /\ ScheduleRan
    /\ Len(schedule) = 2
    /\ OfKind(all_errors, ScheduleKinds) = <<>>

----------------------------------------------------------------------------
(* Properties of malformed input *)

Malformed(show) ==
    \/ ~Has(show, "start_time_utc")
    \/ ~Has(show, "end_time_utc")
    \/ TimeRaises(show.start_time_utc)
    \/ TimeRaises(show.end_time_utc)

Findings == {all_errors[k] : k \in 1..Len(all_errors)}
                \cup {all_warnings[k] : k \in 1..Len(all_warnings)}

ScheduledIds == {schedule[k].id : k \in 1..Len(schedule)}

\* C3: when a show has a start or end time that is no HH:MM string, or lacks
\* the field, no checker aborts; the run completes with a finding scoped to
\* that show, the show is left out of the schedule arithmetic, and every
\* other show is still in it.
C3_MalformedShowIsIsolated ==
    /\ pc # "crashed"
    /\ exit_status # "exception"
    /\ pc = "done" =>
        \A i \in 1..Len(shows) :
            IF Malformed(shows[i])
            THEN /\ \E f \in Findings : f.a = shows[i].id
                 /\ shows[i].id \notin ScheduledIds
            ELSE shows[i].id \in ScheduledIds

----------------------------------------------------------------------------
(* Properties of the cross-reference checker *)

XrefKinds == {"BaseConfig", "FailedToLoad", "UnknownPresenter", "UnknownTag"}
UnknownKinds == {"UnknownPresenter", "UnknownTag"}

\* validate_cross_references has returned
XrefRan == pc \in {"ratios", "schedule", "budgets", "summary", "done"}

\* C4: when the roster or the vocabulary fails to load, the cross-reference
\* checker's only finding is the one blocking error, with no per-show
\* finding; and the run still reaches the schedule checker, whose findings
\* are those the show documents alone determine, whatever the roster and
\* the vocabulary are.
C4_BlockedCrossReferences ==
    /\ (XrefRan /\ CrossReferencesBlocked) =>
           OfKind(all_errors, XrefKinds) = <<BaseConfigError>>
    /\ exit_status # "exception"
    /\ pc \in {"summary", "done"} =>
           OfKind(all_errors, ScheduleKinds)
               = ScheduleErrors(SortByStart(ParsedSchedule))

C4_Witness ==
    /\ pc = "done"
    /\ Falsy(presenters)
    /\ ~Falsy(tags)
    /\ Len(shows) = 3
    /\ Falsy(shows[2])
    /\ ~Falsy(shows[1])
    /\ shows[1].primary_duo = <<"p1", "dj_unknown">>
    /\ OfKind(all_errors, XrefKinds) = <<BaseConfigError>>
    /\ Len(OfKind(all_errors, ScheduleKinds)) = 2

KnownPresenters ==
    {presenters.presenters[k] : k \in 1..Len(presenters.presenters)}

AllowedTags ==
    {tags.allowed_topic_tags[k] : k \in 1..Len(tags.allowed_topic_tags)}

UnknownPresenterFindings(show) ==
    LET unknown == SelectSeq(show.primary_duo,
                             LAMBDA x : x \notin KnownPresenters)
    IN [k \in 1..Len(unknown) |->
            Finding("UnknownPresenter", show.id, unknown[k], 0)]

UnknownTagFindings(show) ==
    LET unknown == SelectSeq(show.primary_tags, LAMBDA x : x \notin AllowedTags)
    IN [k \in 1..Len(unknown) |-> Finding("UnknownTag", show.id, unknown[k], 0)]

\* C6: with roster and vocabulary loaded, the unknown-presenter and
\* unknown-tag errors are exactly one per unresolved entry, for every loaded
\* show, ordered by show in file order, presenters before tags, each in the
\* given order; a single unresolved 'dj_unknown' gives exactly one error.
C6_OneErrorPerUnresolvedReference ==
    (XrefRan /\ ~CrossReferencesBlocked) =>
        /\ OfKind(all_errors, UnknownKinds) =
               Flatten([i \in 1..Len(Loaded(shows)) |->
                   UnknownPresenterFindings(Loaded(shows)[i])
                       \o UnknownTagFindings(Loaded(shows)[i])])
        /\ \A i \in 1..Len(shows) :
               (/\ ~Falsy(shows[i])
                /\ shows[i].primary_duo = <<"p1", "dj_unknown">>
                /\ shows[i].primary_tags = <<"t1">>
                /\ \A j \in 1..Len(shows) :
                       (j # i /\ ~Falsy(shows[j])) =>
                           /\ shows[j].primary_duo = <<"p1", "p2">>
                           /\ shows[j].primary_tags = <<"t1">>) =>
                   OfKind(all_errors, UnknownKinds) =
                       <<Finding("UnknownPresenter", shows[i].id,
                                 "dj_unknown", 0)>>

C6_Witness ==
    /\ XrefRan
    /\ ~CrossReferencesBlocked
    /\ Len(shows) = 3
    /\ Falsy(shows[1])
    /\ ~Falsy(shows[2])
    /\ ~Falsy(shows[3])
    /\ OfKind(all_errors, UnknownKinds) =
           <<Finding("UnknownPresenter", shows[2].id, "dj_unknown", 0),
             Finding("UnknownPresenter", shows[2].id, "dj_ghost", 0),
             Finding("UnknownTag", shows[2].id, "bogus", 0),
             Finding("UnknownTag", shows[2].id, "retro", 0),
             Finding("UnknownPresenter", shows[3].id, "dj_unknown", 0),
             Finding("UnknownTag", shows[3].id, "bogus", 0)>>

----------------------------------------------------------------------------
(* Properties of the ratio checker *)

\* validate_music_ratios has returned
RatiosRan == pc \in {"schedule", "budgets", "summary", "done"}

CountOf(kind, show_id) ==
    Len(SelectSeq(all_errors, LAMBDA f : f.kind = kind /\ f.a = show_id))

RatioSum(show) == show.music_fraction + show.talk_fraction

----------------------------------------------------------------------------
(* Properties of the budget checker and the run result *)

BudgetKinds == {"TtsBudget", "MusicBudget"}

\* C7: budget findings are in all_warnings and never in all_errors, and the
\* run ends in failure iff all_errors is non-empty: a run whose only
\* findings are budget warnings ends in success.
C7_BudgetFindingsAreWarnings ==
    /\ \A k \in 1..Len(all_errors) : all_errors[k].kind \notin BudgetKinds
    /\ \A k \in 1..Len(all_warnings) : all_warnings[k].kind \in BudgetKinds
    /\ pc = "done" =>
        /\ exit_status = "failure" <=> Len(all_errors) > 0
        /\ exit_status \in {"passed", "passed_with_warnings"}
               <=> Len(all_errors) = 0

C7_Witness ==
    /\ pc = "done"
    /\ Len(all_errors) = 0
    /\ Len(shows) = 2
    /\ Len(all_warnings) = 3
    /\ exit_status = "passed_with_warnings"

====
